---- MODULE Spec2Model ----
(***************************************************************************)
(* mania-svg: the render pipeline of src/src/index.ts (lines 533-1004):    *)
(* deepMerge of the option override onto defaultOptions, resolveOptions    *)
(* (time window, strip count in the modes num / time / ratio, layout and   *)
(* fit to a target size) and the assembly of the document.                 *)
(*                                                                         *)
(* Numbers are JavaScript numbers taken in exact arithmetic: a number is a *)
(* pair <<n, d>> in lowest terms with d >= 0.  d = 0 holds the values a    *)
(* division by zero produces: <<1, 0>> is Infinity, <<-1, 0>> is -Infinity *)
(* and <<0, 0>> is NaN.  Rounding and the sign of zero are not modelled.   *)
(* undefined is <<>>, a string value is a 1-tuple such as <<"auto">>.      *)
(***************************************************************************)
EXTENDS Integers, Sequences, FiniteSets, TLC

VARIABLES
  defaultOptions,   \* the module-level defaultOptions object (its heap state)
  beatmap,          \* the caller's chart of the current render call
  optionsOverride,  \* the caller's override object of the current render call
  pc,               \* position inside render / resolveOptions
  options,          \* deepMerge(defaultOptions, optionsOverride)
  start,            \* let start
  end,              \* let end
  stripNum,         \* let stripNum
  lastRatio,        \* let lastRatio of the ratio search
  iterations,       \* computeLayout calls made by the ratio search
  ctx,              \* the Context resolveOptions returns
  svg,              \* the document render returns
  error,            \* the message of the Error thrown, "" when none
  calls,            \* render calls started so far
  earlier,          \* one earlier finished call: its input and its outcome
  args,             \* the arguments of a direct call of an exported function
  result            \* what that call returned or threw

vars == <<defaultOptions, beatmap, optionsOverride, pc, options, start, end,
          stripNum, lastRatio, iterations, ctx, svg, error, calls, earlier,
          args, result>>

-----------------------------------------------------------------------------
(* Bounds of the model *)

MaxNotes == 2
MaxTimingPoints == 2
MaxKeys == 19
MaxCalls == 3

-----------------------------------------------------------------------------
(* JavaScript numbers, exact *)

Undefined == <<>>
Auto == <<"auto">>
NaN == <<0, 0>>

Sign(n) == IF n > 0 THEN 1 ELSE IF n < 0 THEN -1 ELSE 0
Abs(n) == IF n < 0 THEN -n ELSE n

RECURSIVE Gcd(_, _)
Gcd(a, b) == IF b = 0 THEN a ELSE Gcd(b, a % b)

Norm(n, d) ==
  IF d = 0 THEN <<Sign(n), 0>>
  ELSE LET g == Gcd(Abs(n), Abs(d))
           s == IF d < 0 THEN -1 ELSE 1
       IN  <<(s * n) \div g, (s * d) \div g>>

R(i) == <<i, 1>>
Q(n, d) == Norm(n, d)

IsNaN(a) == a = NaN

Neg(a) == <<-a[1], a[2]>>

Add(a, b) ==
  IF a[2] = 0 /\ b[2] = 0
  THEN (IF a = b THEN a ELSE NaN)
  ELSE Norm(a[1] * b[2] + b[1] * a[2], a[2] * b[2])

Sub(a, b) == Add(a, Neg(b))

Mul(a, b) == Norm(a[1] * b[1], a[2] * b[2])

Recip(a) == Norm(a[2], a[1])

Div(a, b) == Mul(a, Recip(b))

\* a1/a2 < b1/b2 for a2, b2 > 0, by the continued fractions of the two sides
\* (no product is formed, so no intermediate value outgrows the operands).
RECURSIVE LtFraction(_, _, _, _)
LtFraction(a1, a2, b1, b2) ==
  LET qa == a1 \div a2
      qb == b1 \div b2
      ra == a1 % a2
      rb == b1 % b2
  IN  IF qa # qb THEN qa < qb
      ELSE IF rb = 0 THEN FALSE
      ELSE IF ra = 0 THEN TRUE
      ELSE LtFraction(b2, rb, a2, ra)

Lt(a, b) ==
  /\ ~IsNaN(a)
  /\ ~IsNaN(b)
  /\ IF a[2] = 0 \/ b[2] = 0
     THEN (IF a[2] = 0 THEN a[1] ELSE 0) < (IF b[2] = 0 THEN b[1] ELSE 0)
     ELSE LtFraction(a[1], a[2], b[1], b[2])

Le(a, b) == ~IsNaN(a) /\ ~IsNaN(b) /\ ~Lt(b, a)
Gt(a, b) == Lt(b, a)
Ge(a, b) == Le(b, a)

MathMax(a, b) == IF IsNaN(a) \/ IsNaN(b) THEN NaN ELSE IF Lt(a, b) THEN b ELSE a
MathMin(a, b) == IF IsNaN(a) \/ IsNaN(b) THEN NaN ELSE IF Lt(b, a) THEN b ELSE a
MathCeil(a) == IF a[2] = 0 THEN a ELSE R(-((-a[1]) \div a[2]))
MathFloor(a) == IF a[2] = 0 THEN a ELSE R(a[1] \div a[2])

-----------------------------------------------------------------------------
(* defaultOptions, as the module creates it *)

DefaultNoteWidth == 20
DefaultNoteHeight == 6
DefaultNoteRx == 2
DefaultBodyWidth == 10
DefaultAxisWidth == 30
DefaultStripNum == 8
DefaultStripTime == 30000
DefaultMargin == 10
DefaultFinalScale == 1

InitialDefaultOptions ==
  [ background |-> [enabled |-> <<TRUE>>, color |-> <<"#000000">>],
    note   |-> [width |-> R(DefaultNoteWidth), height |-> R(DefaultNoteHeight),
                rx |-> R(DefaultNoteRx), bodyWidth |-> R(DefaultBodyWidth),
                bodyColor |-> <<"#CCCCCC">>],
    time   |-> [start |-> Auto, end |-> Auto, scale |-> Q(1, 10),
                direction |-> <<"up">>],
    barline |-> [strokeWidth |-> R(1), color |-> <<"#85F000">>],
    axis   |-> [width |-> R(DefaultAxisWidth),
                minute |-> [color |-> <<"#FF3F00">>, strokeWidth |-> R(2),
                            fontSize |-> R(18)],
                second |-> [color |-> <<"#FFFFFF">>, strokeWidth |-> R(1),
                            fontSize |-> R(18)]],
    strip  |-> [mode |-> <<"num">>, num |-> R(DefaultStripNum),
                time |-> R(DefaultStripTime), ratio |-> Q(3, 2)],
    layout |-> [margin |-> <<R(DefaultMargin), R(DefaultMargin)>>,
                finalScale |-> R(DefaultFinalScale),
                targetSize |-> Undefined] ]

MAX_STRIP_NUM == 50
MIN_TARGET_DIM == 32
MAX_TARGET_DIM == 20000
MAX_RATIO == 20

-----------------------------------------------------------------------------
(* deepMerge: a fresh object per level, keys of the override laid over the   *)
(* target; plain sub-objects merge key-wise, everything else replaces.       *)

\* The paths of defaultOptions whose value is a plain (non-array) object:
\* typeof v === 'object' && v !== null && !Array.isArray(v).
PlainObjectPaths ==
  {<<"background">>, <<"note">>, <<"time">>, <<"barline">>, <<"axis">>,
   <<"axis", "minute">>, <<"axis", "second">>, <<"strip">>, <<"layout">>}

RECURSIVE deepMergeAt(_, _, _)
deepMergeAt(path, target, source) ==
  [key \in DOMAIN target \cup DOMAIN source |->
     IF key \notin DOMAIN source THEN target[key]
     ELSE IF Append(path, key) \in PlainObjectPaths
          THEN IF key \in DOMAIN target
               THEN deepMergeAt(Append(path, key), target[key], source[key])
               ELSE source[key]
          ELSE IF source[key] # Undefined
               THEN source[key]
               ELSE IF key \in DOMAIN target THEN target[key] ELSE Undefined]

shallowMerge(target, source) ==
  [key \in DOMAIN target \cup DOMAIN source |->
     IF key \in DOMAIN source /\ source[key] # Undefined
     THEN source[key]
     ELSE target[key]]

deepMerge(target, source) == deepMergeAt(<<>>, target, source)

\* Which heap array options.layout.margin is after the merge: the array of
\* defaultOptions unless the override brings its own.
MergedMarginOwner(source) ==
  IF /\ "layout" \in DOMAIN source
     /\ "margin" \in DOMAIN source.layout
     /\ source.layout.margin # Undefined
  THEN "override"
  ELSE "defaults"

-----------------------------------------------------------------------------
(* resolveOptions: the time window *)

TypeError == <<"TypeError">>

FirstTimingPointTimeOrZero(b) ==
  IF Len(b.timingPoints) = 0 THEN R(0) ELSE b.timingPoints[1].time

\* beatmap.timingPoints[0].time: reading .time of undefined throws.
FirstTimingPointTime(b) ==
  IF Len(b.timingPoints) = 0 THEN TypeError ELSE b.timingPoints[1].time

resolveStart(b, o) ==
  IF o.time.start = Auto
  THEN LET t == FirstTimingPointTime(b)
       IN  IF t = TypeError THEN TypeError ELSE MathMax(R(0), t)
  ELSE o.time.start

NoteLastStartOnly(note) == note.start

\* note.end ?? note.start
NoteLast(note) == IF note.end = Undefined THEN note.start ELSE note.end

RECURSIVE reduceMax(_, _)
reduceMax(notes, max) ==
  IF notes = <<>> THEN max
  ELSE reduceMax(Tail(notes), MathMax(max, NoteLast(Head(notes))))

endPadding(o) == Div(o.note.height, o.time.scale)

resolveEnd(b, o, s) ==
  Add(IF o.time.end = Auto THEN reduceMax(b.notes, s) ELSE o.time.end,
      endPadding(o))

-----------------------------------------------------------------------------
(* resolveOptions: computeLayout and the strip count *)

computeLayoutOfGrowingHeight(b, o, s, e, n) ==
  LET stripWidth == Add(Mul(R(b.keys), o.note.width), o.axis.width)
      stripHeight == Mul(Mul(Sub(e, s), o.time.scale), n)
      contentWidth == Mul(n, stripWidth)
      contentHeight == stripHeight
  IN  [stripWidth |-> stripWidth, stripHeight |-> stripHeight,
       contentWidth |-> contentWidth, contentHeight |-> contentHeight,
       totalWidth |-> Add(Mul(o.layout.margin[1], R(2)), contentWidth),
       totalHeight |-> Add(Mul(o.layout.margin[2], R(2)), contentHeight)]

computeLayout(b, o, s, e, n) ==
  LET stripWidth == Add(Mul(R(b.keys), o.note.width), o.axis.width)
      stripHeight == Div(Mul(Sub(e, s), o.time.scale), n)
      contentWidth == Mul(n, stripWidth)
      contentHeight == stripHeight
  IN  [stripWidth |-> stripWidth, stripHeight |-> stripHeight,
       contentWidth |-> contentWidth, contentHeight |-> contentHeight,
       totalWidth |-> Add(Mul(o.layout.margin[1], R(2)), contentWidth),
       totalHeight |-> Add(Mul(o.layout.margin[2], R(2)), contentHeight)]

currentRatioOf(b, o, s, e, n) ==
  LET l == computeLayout(b, o, s, e, n) IN Div(l.totalWidth, l.totalHeight)

stripNumInvalidBelowZero(num) == Lt(num, R(0)) \/ Gt(num, R(MAX_STRIP_NUM))

stripNumInvalid(num) == Le(num, R(0)) \/ Gt(num, R(MAX_STRIP_NUM))

stripTimeInvalid(d) == Le(d, R(0))

stripNumForTimeFloor(s, e, d) ==
  MathMin(MathFloor(Div(Sub(e, s), d)), R(MAX_STRIP_NUM))

stripNumForTime(s, e, d) ==
  MathMin(MathCeil(Div(Sub(e, s), d)), R(MAX_STRIP_NUM))

stripRatioErrorAtMax(r) ==
  IF Le(r, R(0)) THEN "Invalid strip.ratio: must be a positive number"
  ELSE IF Ge(r, R(MAX_RATIO)) THEN "strip.ratio is too large; maximum allowed is 20"
  ELSE ""

stripRatioError(r) ==
  IF Le(r, R(0)) THEN "Invalid strip.ratio: must be a positive number"
  ELSE IF Gt(r, R(MAX_RATIO)) THEN "strip.ratio is too large; maximum allowed is 20"
  ELSE ""

previousIsFarther(r, last, current) == Gt(Sub(r, last), Sub(current, r))

previousIsCloserOrEqual(r, last, current) == Le(Sub(r, last), Sub(current, r))

\* options.strip.ratio - lastRatio < currentRatio - options.strip.ratio
previousIsCloser(r, last, current) == Lt(Sub(r, last), Sub(current, r))

-----------------------------------------------------------------------------
(* resolveOptions: the fit to layout.targetSize *)

targetSizeInvalidBelowOnly(t) ==
  Lt(t[1], R(MIN_TARGET_DIM)) \/ Lt(t[2], R(MIN_TARGET_DIM))

targetSizeInvalid(t) ==
  \/ Lt(t[1], R(MIN_TARGET_DIM)) \/ Gt(t[1], R(MAX_TARGET_DIM))
  \/ Lt(t[2], R(MIN_TARGET_DIM)) \/ Gt(t[2], R(MAX_TARGET_DIM))

marginAlias(owner) == owner

\* let margin = [...options.layout.margin]: the array the fit writes to.
marginCopy(owner) == "fresh"

fittedScaleOfWidthOnly(finalScale, scaleX, scaleY) ==
  MathMin(finalScale, scaleX)

fittedScaleOfTargetOnly(finalScale, scaleX, scaleY) ==
  MathMin(scaleX, scaleY)

\* finalScale = Math.min(finalScale, scaleX, scaleY)
fittedScale(finalScale, scaleX, scaleY) ==
  MathMin(MathMin(finalScale, scaleX), scaleY)

fittedMarginKept(m, target, finalScale, content) == m

\* margin[i] = Math.max(margin[i], (target / finalScale - content) / 2)
fittedMargin(m, target, finalScale, content) ==
  MathMax(m, Div(Sub(Div(target, finalScale), content), R(2)))

fitToTarget(l, o) ==
  LET t == o.layout.targetSize
      scaleX == Div(t[1], l.totalWidth)
      scaleY == Div(t[2], l.totalHeight)
      finalScale == fittedScale(o.layout.finalScale, scaleX, scaleY)
      m0 == fittedMargin(o.layout.margin[1], t[1], finalScale, l.contentWidth)
      m1 == fittedMargin(o.layout.margin[2], t[2], finalScale, l.contentHeight)
  IN  [finalScale |-> finalScale, margin |-> <<m0, m1>>,
       totalWidth |-> Add(Mul(m0, R(2)), l.contentWidth),
       totalHeight |-> Add(Mul(m1, R(2)), l.contentHeight)]

resolvedContext(b, o, s, e, n) ==
  LET l == computeLayout(b, o, s, e, n)
      f == IF o.layout.targetSize # Undefined
           THEN fitToTarget(l, o)
           ELSE [finalScale |-> o.layout.finalScale, margin |-> o.layout.margin,
                 totalWidth |-> l.totalWidth, totalHeight |-> l.totalHeight]
  IN  [beatmap |-> b, background |-> o.background, note |-> o.note,
       barline |-> o.barline, axis |-> o.axis, layout |-> o.layout,
       time |-> [start |-> s, end |-> e, scale |-> o.time.scale,
                 direction |-> o.time.direction],
       strip |-> [num |-> n, width |-> l.stripWidth, height |-> l.stripHeight],
       margin |-> f.margin, totalWidth |-> f.totalWidth,
       totalHeight |-> f.totalHeight, finalScale |-> f.finalScale]

-----------------------------------------------------------------------------
(* The color selector and the note emitter *)

presetColorSchemes == <<"#FFFFFF", "#5EAEFF", "#FFEC5E", "#FF3F00">>

presetKeyLayouts ==
  [k \in {1, 2, 3, 4, 5, 6, 7, 8, 9, 10, 12, 14, 16, 18} |->
     CASE k = 1 -> <<0>>
       [] k = 2 -> <<0, 0>>
       [] k = 3 -> <<0, 1, 0>>
       [] k = 4 -> <<0, 1, 1, 0>>
       [] k = 5 -> <<0, 1, 2, 1, 0>>
       [] k = 6 -> <<0, 1, 0, 0, 1, 0>>
       [] k = 7 -> <<0, 1, 0, 2, 0, 1, 0>>
       [] k = 8 -> <<0, 1, 0, 2, 2, 0, 1, 0>>
       [] k = 9 -> <<3, 0, 1, 0, 2, 0, 1, 0, 3>>
       [] k = 10 -> <<3, 0, 1, 0, 2, 2, 0, 1, 0, 3>>
       [] k = 12 -> <<3, 1, 0, 1, 0, 2, 2, 0, 1, 0, 1, 3>>
       [] k = 14 -> <<3, 0, 1, 0, 1, 0, 2, 2, 0, 1, 0, 1, 0, 3>>
       [] k = 16 -> <<3, 1, 0, 1, 0, 1, 0, 2, 2, 0, 1, 0, 1, 0, 1, 3>>
       [] k = 18 -> <<3, 0, 1, 0, 1, 0, 1, 0, 2, 2, 0, 1, 0, 1, 0, 1, 0, 3>>]

UnsupportedKeys == "Unsupported keys"
InvalidColumn == "Invalid column"

noteColorByColumn(keys, note) ==
  IF keys \notin DOMAIN presetKeyLayouts THEN UnsupportedKeys
  ELSE IF note.column + 1 \notin DOMAIN presetKeyLayouts[keys] THEN InvalidColumn
       ELSE presetColorSchemes[(note.column % 4) + 1]

noteColorOfNearestColumn(keys, note) ==
  IF keys \notin DOMAIN presetKeyLayouts THEN UnsupportedKeys
  ELSE LET layout == presetKeyLayouts[keys]
       IN  IF note.column < 0 THEN InvalidColumn
           ELSE IF note.column + 1 \notin DOMAIN layout
                THEN presetColorSchemes[layout[Len(layout)] + 1]
                ELSE presetColorSchemes[layout[note.column + 1] + 1]

\* The selector createNoteColorSelector() returns: a color, or the message of
\* the Error it throws.
noteColor(keys, note) ==
  IF keys \notin DOMAIN presetKeyLayouts THEN UnsupportedKeys
  ELSE LET layout == presetKeyLayouts[keys]
       IN  IF note.column + 1 \notin DOMAIN layout THEN InvalidColumn
           ELSE presetColorSchemes[layout[note.column + 1] + 1]

\* if (note.end): undefined and 0 are falsy.
Truthy(v) == v # Undefined /\ v # R(0) /\ ~IsNaN(v)

createNote(c, note) ==
  LET x == Mul(R(note.column), c.note.width)
      y == Mul(Sub(note.start, c.time.start), c.time.scale)
      noteY == Sub(y, Div(c.note.height, R(2)))
      color == noteColor(c.beatmap.keys, note)
      head == [x |-> x, y |-> noteY, width |-> c.note.width,
               height |-> c.note.height, fill |-> color]
      lnHeight == Sub(Mul(Sub(note.end, note.start), c.time.scale), c.note.height)
      body == [x |-> Add(x, Div(Sub(c.note.width, c.note.bodyWidth), R(2))),
               y |-> Add(y, Div(c.note.height, R(2))),
               width |-> c.note.bodyWidth, height |-> lnHeight,
               fill |-> c.note.bodyColor[1]]
  IN  IF Truthy(note.end) /\ Gt(lnHeight, R(0)) THEN <<head, body>> ELSE <<head>>

RECURSIVE flatMapNotes(_, _)
flatMapNotes(c, notes) ==
  IF notes = <<>> THEN <<>>
  ELSE createNote(c, Head(notes)) \o flatMapNotes(c, Tail(notes))

\* The first Error a note's color selection throws, "" when none does.
RECURSIVE firstNoteError(_, _)
firstNoteError(keys, notes) ==
  IF notes = <<>> THEN ""
  ELSE LET col == noteColor(keys, Head(notes))
       IN  IF col \in {UnsupportedKeys, InvalidColumn} THEN col
           ELSE firstNoteError(keys, Tail(notes))

-----------------------------------------------------------------------------
(* Bar lines, axis labels, strips and the document *)

RECURSIVE insertByTimeBeforeEquals(_, _)
insertByTimeBeforeEquals(sorted, tp) ==
  IF sorted = <<>> THEN <<tp>>
  ELSE LET last == sorted[Len(sorted)]
       IN  IF Le(tp.time, last.time)
           THEN Append(insertByTimeBeforeEquals(
                         SubSeq(sorted, 1, Len(sorted) - 1), tp), last)
           ELSE Append(sorted, tp)

\* [...timingPoints].sort((a, b) => a.time - b.time): a stable sort of a copy.
RECURSIVE insertByTime(_, _)
insertByTime(sorted, tp) ==
  IF sorted = <<>> THEN <<tp>>
  ELSE LET last == sorted[Len(sorted)]
       IN  IF Lt(tp.time, last.time)
           THEN Append(insertByTime(SubSeq(sorted, 1, Len(sorted) - 1), tp), last)
           ELSE Append(sorted, tp)

RECURSIVE sortByTime(_)
sortByTime(timingPoints) ==
  IF timingPoints = <<>> THEN <<>>
  ELSE insertByTime(sortByTime(SubSeq(timingPoints, 1, Len(timingPoints) - 1)),
                    timingPoints[Len(timingPoints)])

RECURSIVE barLinesFromInclusive(_, _, _, _, _)
barLinesFromInclusive(currentTime, nextTime, barDuration, s, e) ==
  IF Le(currentTime, nextTime) /\ Le(currentTime, e)
  THEN (IF Ge(currentTime, s) THEN <<currentTime>> ELSE <<>>)
       \o barLinesFromInclusive(Add(currentTime, barDuration), nextTime,
                                barDuration, s, e)
  ELSE <<>>

\* The inner for loop: currentTime from a timing point on, by barDuration.
RECURSIVE barLinesFrom(_, _, _, _, _)
barLinesFrom(currentTime, nextTime, barDuration, s, e) ==
  IF Lt(currentTime, nextTime) /\ Le(currentTime, e)
  THEN (IF Ge(currentTime, s) THEN <<currentTime>> ELSE <<>>)
       \o barLinesFrom(Add(currentTime, barDuration), nextTime, barDuration, s, e)
  ELSE <<>>

RECURSIVE barLinesOfRegimesToEnd(_, _, _, _)
barLinesOfRegimesToEnd(sorted, i, s, e) ==
  IF i > Len(sorted) THEN <<>>
  ELSE LET tp == sorted[i]
           barDuration == Mul(Div(R(60000), tp.bpm), R(tp.meter))
       IN  barLinesFrom(tp.time, e, barDuration, s, e)
           \o barLinesOfRegimesToEnd(sorted, i + 1, s, e)

RECURSIVE barLinesOfRegimes(_, _, _, _)
barLinesOfRegimes(sorted, i, s, e) ==
  IF i > Len(sorted) THEN <<>>
  ELSE LET tp == sorted[i]
           nextTime == IF i < Len(sorted) THEN sorted[i + 1].time ELSE e
           beatDuration == Div(R(60000), tp.bpm)
           barDuration == Mul(beatDuration, R(tp.meter))
       IN  barLinesFrom(tp.time, nextTime, barDuration, s, e)
           \o barLinesOfRegimes(sorted, i + 1, s, e)

generateBarLinePositions(timingPoints, s, e) ==
  barLinesOfRegimes(sortByTime(timingPoints), 1, s, e)

createBarLine(c, time) ==
  [y |-> Mul(Sub(time, c.time.start), c.time.scale),
   x2 |-> Mul(R(c.beatmap.keys), c.note.width),
   strokeWidth |-> c.barline.strokeWidth,
   stroke |-> c.barline.color[1]]

createAxisLabel(c, time) ==
  LET x == Mul(R(c.beatmap.keys), c.note.width)
      y == Mul(Sub(R(time), c.time.start), c.time.scale)
      minutes == time \div 60000
      seconds == (time % 60000) \div 1000
      style == IF seconds = 0 THEN c.axis.minute ELSE c.axis.second
      up == c.time.direction = <<"up">>
  IN  [time |-> time, x |-> x, y |-> y,
       x2 |-> Add(x, Div(c.axis.width, R(5))),
       textX |-> Add(x, Div(c.axis.width, R(2))),
       textY |-> IF up THEN Neg(y) ELSE y,
       label |-> IF seconds = 0 THEN minutes ELSE seconds,
       stroke |-> style.color[1], strokeWidth |-> style.strokeWidth,
       fontSize |-> style.fontSize]

\* times(n): Array.from({ length: n }) has ToLength(n) elements.
timesLength(n) ==
  IF IsNaN(n) \/ Le(n, R(0)) THEN 0 ELSE n[1] \div n[2]

\* times(Math.floor(ctx.time.end / 1000)).filter(i => i * 1000 >= ctx.time.start)
axisLabelTimes(c) ==
  LET n == timesLength(MathFloor(Div(c.time.end, R(1000))))
  IN  SelectSeq([i \in 1..n |-> (i - 1) * 1000],
                LAMBDA t : Ge(R(t), c.time.start))

createClipPath(c, stripIndex) ==
  [id |-> stripIndex, y |-> Mul(R(stripIndex), c.strip.height),
   width |-> c.strip.width, height |-> c.strip.height]

createStripUnshifted(c, i) ==
  [offsetX |-> Mul(R(i), c.strip.width), offsetY |-> R(0), clipPath |-> i]

createStrip(c, i) ==
  [offsetX |-> Mul(R(i), c.strip.width),
   offsetY |-> Mul(R(-i), c.strip.height),
   clipPath |-> i]

document(c) ==
  LET up == c.time.direction = <<"up">>
      barLines == generateBarLinePositions(c.beatmap.timingPoints,
                                           c.time.start, c.time.end)
      labels == axisLabelTimes(c)
      n == timesLength(c.strip.num)
  IN  [width |-> Mul(c.totalWidth, c.finalScale),
       height |-> Mul(c.totalHeight, c.finalScale),
       notes |-> flatMapNotes(c, c.beatmap.notes),
       barLines |-> [k \in DOMAIN barLines |-> createBarLine(c, barLines[k])],
       axisLabels |-> [k \in DOMAIN labels |-> createAxisLabel(c, labels[k])],
       clipPaths |-> [k \in 1..n |-> createClipPath(c, k - 1)],
       strips |-> [k \in 1..n |-> createStrip(c, k - 1)],
       background |-> IF c.background.enabled = <<TRUE>>
                      THEN <<c.background.color[1]>> ELSE <<>>,
       scaleX |-> c.finalScale,
       scaleY |-> IF up THEN Neg(c.finalScale) ELSE c.finalScale,
       translateX |-> c.margin[1],
       translateY |-> IF up THEN Add(Neg(c.totalHeight), c.margin[2])
                      ELSE c.margin[2]]

\* The while loop of the ratio mode, from count n with the previous ratio
\* last, after iters computeLayout calls.
RECURSIVE ratioSearch(_, _, _, _, _, _, _)
ratioSearch(b, o, s, e, n, last, iters) ==
  IF ~Le(n, R(MAX_STRIP_NUM))
  THEN [stripNum |-> n, lastRatio |-> last, iterations |-> iters]
  ELSE LET current == currentRatioOf(b, o, s, e, n)
       IN  IF Ge(current, o.strip.ratio)
           THEN [stripNum |-> IF previousIsCloser(o.strip.ratio, last, current)
                              THEN Sub(n, R(1)) ELSE n,
                 lastRatio |-> last, iterations |-> iters + 1]
           ELSE ratioSearch(b, o, s, e, Add(n, R(1)), current, iters + 1)

-----------------------------------------------------------------------------
(* The inputs: charts and option overrides *)

RECURSIVE SeqsUpTo(_, _)
SeqsUpTo(S, n) ==
  IF n = 0 THEN {<<>>}
  ELSE LET shorter == SeqsUpTo(S, n - 1)
       IN  shorter \cup {Append(q, x) : q \in {p \in shorter : Len(p) = n - 1}, x \in S}

Tap(column, t) == [column |-> column, start |-> R(t), end |-> Undefined]
Hold(column, t, u) == [column |-> column, start |-> R(t), end |-> R(u)]
TimingPoint(t, bpm, meter) == [time |-> R(t), bpm |-> R(bpm), meter |-> meter]

NoteChoices == {Tap(1, 1440), Hold(2, 2000, 3000)}
TimingPointLists ==
  {<<>>,
   <<TimingPoint(-500, 120, 4)>>,
   <<TimingPoint(1000, 60, 4)>>,
   <<TimingPoint(-500, 120, 4), TimingPoint(1000, 60, 4)>>,
   <<TimingPoint(1000, 60, 4), TimingPoint(-500, 120, 4)>>}

Beatmaps ==
  [keys : {4},
   notes : SeqsUpTo(NoteChoices, MaxNotes),
   timingPoints : TimingPointLists]

TimeOverrides ==
  {[start |-> s, end |-> e] : s \in {Auto, R(5000)}, e \in {Auto, R(390)}}

StripOverrides ==
  {[mode |-> <<"num">>]}
  \cup {[mode |-> <<"num">>, num |-> n] :
          n \in {R(0), Q(1, 2), Q(5, 2), R(50), R(51)}}
  \cup {[mode |-> <<"time">>]}
  \cup {[mode |-> <<"time">>, time |-> d] : d \in {R(0), R(7), R(1000)}}
  \cup {[mode |-> <<"ratio">>]}
  \cup {[mode |-> <<"ratio">>, ratio |-> r] :
          r \in {R(0), R(1), Q(13, 2), R(20), R(21)}}
  \cup {[mode |-> <<"grid">>]}

LayoutOverrides ==
  {[finalScale |-> Undefined],
   [margin |-> <<R(0), R(0)>>],
   [targetSize |-> <<R(400), R(300)>>],
   [targetSize |-> <<R(31), R(300)>>]}

\* A chart of three minutes, given by its explicit end.
LongOverrides ==
  [time : {[start |-> Auto, end |-> R(180000)]},
   strip : {[mode |-> <<"num">>], [mode |-> <<"time">>, time |-> R(1000)],
            [mode |-> <<"ratio">>], [mode |-> <<"ratio">>, ratio |-> R(20)]},
   layout : {[finalScale |-> Undefined]}]

Overrides ==
  [time : TimeOverrides, strip : StripOverrides, layout : LayoutOverrides]
  \cup LongOverrides

\* The inputs of the runs of several render calls.
CallBeatmaps ==
  {[keys |-> 4, notes |-> <<Hold(2, 2000, 3000)>>,
    timingPoints |-> <<TimingPoint(1000, 60, 4)>>],
   [keys |-> 4, notes |-> <<Tap(1, 1440)>>,
    timingPoints |-> <<TimingPoint(1000, 60, 4), TimingPoint(-500, 120, 4)>>],
   [keys |-> 4, notes |-> <<>>, timingPoints |-> <<>>]}

CallOverrides ==
  [time : {[start |-> Auto, end |-> Auto]},
   strip : {[mode |-> <<"num">>], [mode |-> <<"time">>, time |-> R(1000)],
            [mode |-> <<"ratio">>, ratio |-> Q(13, 2)],
            [mode |-> <<"num">>, num |-> R(0)]},
   layout : {[finalScale |-> Undefined], [targetSize |-> <<R(400), R(300)>>],
             [margin |-> <<R(0), R(0)>>, targetSize |-> <<R(400), R(300)>>]}]

-----------------------------------------------------------------------------
(* render, one call after the other *)

Outcome == [pc |-> pc, error |-> error, svg |-> svg]

Fresh(b, o) ==
  /\ beatmap = b
  /\ optionsOverride = o
  /\ pc = "render"
  /\ options = Undefined
  /\ start = Undefined
  /\ end = Undefined
  /\ stripNum = Undefined
  /\ lastRatio = Undefined
  /\ iterations = 0
  /\ ctx = Undefined
  /\ svg = Undefined
  /\ error = ""
  /\ args = Undefined
  /\ result = Undefined

Init ==
  /\ defaultOptions = InitialDefaultOptions
  /\ calls = 1
  /\ earlier = <<>>
  /\ \E b \in Beatmaps, o \in Overrides : Fresh(b, o)

InitCalls ==
  /\ defaultOptions = InitialDefaultOptions
  /\ calls = 1
  /\ earlier = <<>>
  /\ \E b \in CallBeatmaps, o \in CallOverrides : Fresh(b, o)

Throw(message) ==
  /\ pc' = "error"
  /\ error' = message

\* render: deepMerge, then resolveOptions up to the padded window.
ResolveWindow ==
  /\ pc = "render"
  /\ LET o == deepMerge(defaultOptions, optionsOverride)
         s == resolveStart(beatmap, o)
     IN  /\ options' = o
         /\ IF s = TypeError
            THEN /\ Throw("TypeError: Cannot read properties of undefined (reading 'time')")
                 /\ UNCHANGED <<start, end>>
            ELSE /\ start' = s
                 /\ end' = resolveEnd(beatmap, o, s)
                 /\ pc' = "strip"
                 /\ UNCHANGED error
  /\ UNCHANGED <<defaultOptions, beatmap, optionsOverride, stripNum, lastRatio,
                 iterations, ctx, svg, calls, earlier, args, result>>

\* resolveOptions: the strip count in the mode options.strip.mode.
ResolveStripNum ==
  /\ pc = "strip"
  /\ LET mode == options.strip.mode
         keep == UNCHANGED <<end, stripNum, lastRatio, iterations>>
     IN  CASE mode = <<"num">> ->
                IF options.strip.num = Undefined
                THEN Throw("Strip num must be specified when strip mode is \"num\"") /\ keep
                ELSE IF stripNumInvalid(options.strip.num)
                THEN Throw("Invalid strip.num: must be in (0, 50]") /\ keep
                ELSE /\ stripNum' = options.strip.num
                     /\ pc' = "layout"
                     /\ UNCHANGED <<end, lastRatio, iterations, error>>
           [] mode = <<"time">> ->
                IF options.strip.time = Undefined
                THEN Throw("Strip time must be specified when strip mode is \"time\"") /\ keep
                ELSE IF stripTimeInvalid(options.strip.time)
                THEN Throw("Invalid strip.time: must be a positive number") /\ keep
                ELSE LET n == stripNumForTime(start, end, options.strip.time)
                     IN  IF Le(n, R(0))
                         THEN Throw("Computed strip number is zero; check strip.time and time range") /\ keep
                         ELSE /\ stripNum' = n
                              /\ end' = Add(start, Mul(n, options.strip.time))
                              /\ pc' = "layout"
                              /\ UNCHANGED <<lastRatio, iterations, error>>
           [] mode = <<"ratio">> ->
                IF options.strip.ratio = Undefined
                THEN Throw("Strip ratio must be specified when strip mode is \"ratio\"") /\ keep
                ELSE IF stripRatioError(options.strip.ratio) # ""
                THEN Throw(stripRatioError(options.strip.ratio)) /\ keep
                ELSE LET found == ratioSearch(beatmap, options, start, end, R(1), R(0), 0)
                     IN  /\ stripNum' = found.stripNum
                         /\ lastRatio' = found.lastRatio
                         /\ iterations' = found.iterations
                         /\ pc' = "layout"
                         /\ UNCHANGED <<end, error>>
           [] OTHER -> Throw("Unsupported strip mode") /\ keep
  /\ UNCHANGED <<defaultOptions, beatmap, optionsOverride, options, start, ctx,
                 svg, calls, earlier, args, result>>

\* resolveOptions: computeLayout of the chosen count, the fit to
\* layout.targetSize and the returned Context.  The fit writes the margin pair
\* into the array marginCopy names.
ResolveLayout ==
  /\ pc = "layout"
  /\ LET t == options.layout.targetSize
         c == resolvedContext(beatmap, options, start, end, stripNum)
         written == marginCopy(MergedMarginOwner(optionsOverride))
     IN  IF t # Undefined /\ targetSizeInvalid(t)
         THEN /\ Throw("layout.targetSize dimensions must be within [32, 20000]")
              /\ UNCHANGED <<ctx, defaultOptions, optionsOverride>>
         ELSE /\ ctx' = c
              /\ pc' = "emit"
              /\ defaultOptions' =
                   IF t # Undefined /\ written = "defaults"
                   THEN [defaultOptions EXCEPT !.layout.margin = c.margin]
                   ELSE defaultOptions
              /\ optionsOverride' =
                   IF t # Undefined /\ written = "override"
                   THEN [optionsOverride EXCEPT !.layout.margin = c.margin]
                   ELSE optionsOverride
              /\ UNCHANGED error
  /\ UNCHANGED <<beatmap, options, start, end, stripNum, lastRatio, iterations,
                 svg, calls, earlier, args, result>>

\* render: the elements and the document, or the Error of the color selector.
Assemble ==
  /\ pc = "emit"
  /\ LET e == firstNoteError(beatmap.keys, beatmap.notes)
     IN  IF e # ""
         THEN Throw(e) /\ UNCHANGED svg
         ELSE /\ svg' = document(ctx)
              /\ pc' = "done"
              /\ UNCHANGED error
  /\ UNCHANGED <<defaultOptions, beatmap, optionsOverride, options, start, end,
                 stripNum, lastRatio, iterations, ctx, calls, earlier, args,
                 result>>

\* The caller's next render call; the finished one may be kept for comparison.
Call ==
  /\ pc \in {"done", "error"}
  /\ calls < MaxCalls
  /\ calls' = calls + 1
  /\ \E keep \in BOOLEAN :
       earlier' = IF keep /\ earlier = <<>>
                  THEN <<[call |-> calls, beatmap |-> beatmap,
                          optionsOverride |-> optionsOverride,
                          outcome |-> Outcome]>>
                  ELSE earlier
  /\ \E b \in CallBeatmaps, o \in CallOverrides :
       /\ beatmap' = b
       /\ optionsOverride' = o
  /\ pc' = "render"
  /\ options' = Undefined
  /\ start' = Undefined
  /\ end' = Undefined
  /\ stripNum' = Undefined
  /\ lastRatio' = Undefined
  /\ iterations' = 0
  /\ ctx' = Undefined
  /\ svg' = Undefined
  /\ error' = ""
  /\ UNCHANGED <<defaultOptions, args, result>>

Next == ResolveWindow \/ ResolveStripNum \/ ResolveLayout \/ Assemble

Spec == Init /\ [][Next]_vars

NextCalls == Next \/ Call

SpecCalls == InitCalls /\ [][NextCalls]_vars

-----------------------------------------------------------------------------
(* What the claims are stated over *)

Range(q) == {q[i] : i \in DOMAIN q}

\* resolveOptions returned a Context.
Returned == pc \in {"emit", "done"}

\* The time window has been resolved (no Error before the strip count).
WindowResolved == start # Undefined

StripMode == options.strip.mode[1]

\* The time each note lasts to: note.end when present, else note.start.
NoteTimes ==
  {IF n.end = Undefined THEN n.start ELSE n.end : n \in Range(beatmap.notes)}

\* The start the window is to have.
WindowStart ==
  IF options.time.start = Auto
  THEN LET first == beatmap.timingPoints[1].time
       IN  IF Lt(first, R(0)) THEN R(0) ELSE first
  ELSE options.time.start

\* v is the end before padding the window is to have.
IsWindowEndBeforePadding(v) ==
  IF options.time.end = Auto
  THEN /\ v \in NoteTimes \cup {WindowStart}
       /\ \A t \in NoteTimes \cup {WindowStart} : Le(t, v)
  ELSE v = options.time.end

PaddingTerm == Div(options.note.height, options.time.scale)

\* C1: every Context the resolver returns has 1 <= strip count <= 50, in each
\* of the strip modes num, time and ratio.
C1_StripCountInRange ==
  Returned => Le(R(1), ctx.strip.num) /\ Le(ctx.strip.num, R(MAX_STRIP_NUM))

\* C2: every Context the resolver returns has a time window with end > start.
C2_EndAfterStart ==
  Returned => Gt(ctx.time.end, ctx.time.start)

\* C3: the resolved start is max(0, time of the first timing point in input
\* order) for 'auto' and the explicit value otherwise; the end is the maximum of
\* note.end ?? note.start over the notes with start as the floor for 'auto' and
\* the explicit value otherwise, plus note.height / time.scale in both cases.
C3_WindowResolution ==
  (WindowResolved /\ pc = "strip") =>
     /\ start = WindowStart
     /\ IsWindowEndBeforePadding(Sub(end, PaddingTerm))

C3_Witness ==
  /\ pc = "strip"
  /\ options.time.start = Auto
  /\ options.time.end = Auto
  /\ beatmap.timingPoints = <<TimingPoint(1000, 60, 4), TimingPoint(-500, 120, 4)>>
  /\ beatmap.notes = <<Hold(2, 2000, 3000), Tap(1, 1440)>>
  /\ start = R(1000)
  /\ end = R(3060)

\* Two outcomes of render are the same: both the same Error, or both the same
\* document.
SameOutcome(a, b) ==
  /\ a.pc = b.pc
  /\ a.error = b.error
  /\ a.pc = "done" => a.svg = b.svg

\* The current call has finished and has the input of the earlier call kept.
RepeatsEarlier ==
  /\ pc \in {"done", "error"}
  /\ earlier # <<>>
  /\ earlier[1].beatmap = beatmap
  /\ earlier[1].optionsOverride = optionsOverride

\* C4: a render call with the chart and the override of an earlier call has
\* the outcome of that call, whatever calls were made in between.
C4_Deterministic ==
  RepeatsEarlier => SameOutcome(earlier[1].outcome, Outcome)

C4_Witness ==
  /\ RepeatsEarlier
  /\ earlier[1].call = 1
  /\ calls = 3
  /\ pc = "done"
  /\ optionsOverride.layout = [finalScale |-> Undefined]

\* C5: with time.start = 'auto' and no timing points render raises and returns
\* neither a Context nor a document.
C5_EmptyTimingPointsRaise ==
  (pc # "render" /\ options.time.start = Auto /\ beatmap.timingPoints = <<>>) =>
     /\ pc = "error"
     /\ error = "TypeError: Cannot read properties of undefined (reading 'time')"
     /\ ctx = Undefined
     /\ svg = Undefined

C5_Witness ==
  /\ pc = "error"
  /\ options.time.start = Auto
  /\ beatmap.timingPoints = <<>>
  /\ beatmap.notes # <<>>

\* C6: in mode 'num' a strip.num <= 0 or > 50 raises; every other strip.num is
\* the resolved strip count unchanged, and the end stays at its padded value.
C6_NumMode ==
  (WindowResolved /\ pc # "strip" /\ StripMode = "num") =>
     LET num == options.strip.num
     IN  IF Le(num, R(0)) \/ Gt(num, R(50))
         THEN /\ pc = "error"
              /\ error = "Invalid strip.num: must be in (0, 50]"
              /\ stripNum = Undefined
         ELSE /\ error # "Invalid strip.num: must be in (0, 50]"
              /\ stripNum = num
              /\ IsWindowEndBeforePadding(Sub(end, PaddingTerm))
              /\ Returned => /\ ctx.strip.num = num
                             /\ ctx.time.end = end

C6_Witness ==
  /\ pc = "done"
  /\ StripMode = "num"
  /\ options.strip.num = Q(5, 2)
  /\ ctx.strip.num = Q(5, 2)
  /\ options.time.end = Auto
  /\ beatmap.notes # <<>>

\* k is min(ceil(x), 50)
IsClampedCeil(k, x) ==
  \/ k < MAX_STRIP_NUM /\ Lt(R(k - 1), x) /\ Le(x, R(k))
  \/ k = MAX_STRIP_NUM /\ Gt(x, R(MAX_STRIP_NUM - 1))

\* C7: in mode 'time' with d > 0 the resolved strip count is
\* min(ceil((paddedEnd - start) / d), 50), the resolved end is
\* start + stripCount * d and the strip height is d * time.scale; d <= 0 raises.
C7_TimeMode ==
  (WindowResolved /\ pc # "strip" /\ StripMode = "time") =>
     LET d == options.strip.time
     IN  IF Le(d, R(0))
         THEN /\ pc = "error"
              /\ error = "Invalid strip.time: must be a positive number"
         ELSE /\ error # "Invalid strip.time: must be a positive number"
              /\ Returned =>
                   /\ ctx.strip.num[2] = 1
                   /\ \E padded \in {Add(v, PaddingTerm) :
                                       v \in (NoteTimes \cup {start, options.time.end}) \ {Auto}} :
                        /\ IsWindowEndBeforePadding(Sub(padded, PaddingTerm))
                        /\ IsClampedCeil(ctx.strip.num[1], Div(Sub(padded, start), d))
                   /\ ctx.time.end = Add(ctx.time.start, Mul(ctx.strip.num, d))
                   /\ ctx.strip.height = Mul(d, options.time.scale)

C7_Witness ==
  /\ pc = "done"
  /\ StripMode = "time"
  /\ options.strip.time = R(1000)
  /\ ctx.time.start = R(1000)
  /\ ctx.strip.num = R(3)
  /\ ctx.time.end = R(4000)

RatioErrors ==
  {"Invalid strip.ratio: must be a positive number",
   "strip.ratio is too large; maximum allowed is 20"}

\* C8: in mode 'ratio' a target r <= 0 or r > 20 raises before any count is
\* tried; every r with 0 < r <= 20 is accepted and the search runs.
C8_RatioRange ==
  (WindowResolved /\ pc # "strip" /\ StripMode = "ratio") =>
     LET r == options.strip.ratio
     IN  IF Le(r, R(0)) \/ Gt(r, R(20))
         THEN /\ pc = "error"
              /\ error \in RatioErrors
              /\ iterations = 0
              /\ stripNum = Undefined
         ELSE /\ error \notin RatioErrors
              /\ iterations >= 1
              /\ stripNum # Undefined

C8_Witness ==
  /\ pc = "done"
  /\ StripMode = "ratio"
  /\ options.strip.ratio = R(MAX_RATIO)
  /\ iterations > 1

\* The canvas aspect ratio totalWidth(n) / totalHeight(n) of the window.
AspectRatio(n) == currentRatioOf(beatmap, options, start, end, R(n))

\* The counts in 1..50 whose aspect ratio is >= the target.
Reaching == {n \in 1..MAX_STRIP_NUM : Ge(AspectRatio(n), options.strip.ratio)}

Smallest(S) == CHOOSE n \in S : \A m \in S : n <= m

AbsQ(a) == IF Lt(a, R(0)) THEN Neg(a) ELSE a

Distance(n) == AbsQ(Sub(AspectRatio(n), options.strip.ratio))

\* The ratio search has just ended.
RatioSearched == pc = "layout" /\ StripMode = "ratio"

\* C9: in mode 'ratio', with found the smallest count in 1..50 whose aspect
\* ratio is >= r, the chosen count is found or found - 1, the one of the two
\* whose aspect ratio is closest to r.
C9_ClosestOfTwo ==
  RatioSearched =>
     LET reaching == Reaching
     IN  reaching # {} =>
           LET found == Smallest(reaching)
           IN  /\ stripNum \in {R(found), R(found - 1)}
               /\ \A n \in {found, found - 1} :
                    Le(Distance(stripNum[1]), Distance(n))

C9_Witness ==
  /\ RatioSearched
  /\ LET reaching == Reaching
     IN  /\ reaching # {}
         /\ LET found == Smallest(reaching)
            IN  /\ found >= 3
                /\ stripNum = R(found - 1)
                /\ Lt(Distance(found - 1), Distance(found))

\* The count found - 1 and the count found are equally far from the target.
Equidistant(found) ==
  Sub(options.strip.ratio, AspectRatio(found - 1))
    = Sub(AspectRatio(found), options.strip.ratio)

\* C10 as claimed: on exact equidistance the smaller count found - 1 is chosen.
C10_TieTakesSmaller ==
  RatioSearched =>
     LET reaching == Reaching
     IN  reaching # {} =>
           LET found == Smallest(reaching)
           IN  Equidistant(found) => stripNum = R(found - 1)

\* C10 as amended: on exact equidistance the found count, the larger of the
\* two, is chosen.
C10_TieTakesFound ==
  RatioSearched =>
     LET reaching == Reaching
     IN  reaching # {} =>
           LET found == Smallest(reaching)
           IN  Equidistant(found) => stripNum = R(found)

C10_Witness ==
  /\ RatioSearched
  /\ LET reaching == Reaching
     IN  /\ reaching # {}
         /\ Smallest(reaching) = 4
         /\ Equidistant(4)
         /\ stripNum = R(4)

-----------------------------------------------------------------------------
(* The fit to layout.targetSize, over targets, scales and margins *)

FitBeatmaps ==
  {[keys |-> 4, notes |-> <<Tap(1, 1440), Hold(2, 2000, 3000)>>,
    timingPoints |-> <<TimingPoint(1000, 60, 4)>>],
   [keys |-> 4, notes |-> <<>>, timingPoints |-> <<TimingPoint(-500, 120, 4)>>]}

FitTargets ==
  {Undefined,
   <<R(400), R(300)>>, <<R(32), R(20000)>>, <<R(20000), R(32)>>,
   <<R(2000), R(40)>>,
   <<R(31), R(300)>>, <<R(400), R(31)>>, <<R(20001), R(300)>>,
   <<R(400), R(20001)>>}

FitOverrides ==
  [time : {[start |-> Auto, end |-> Auto], [start |-> R(5000), end |-> R(390)]},
   strip : {[mode |-> <<"num">>], [mode |-> <<"num">>, num |-> R(1)],
            [mode |-> <<"time">>, time |-> R(1000)],
            [mode |-> <<"ratio">>], [mode |-> <<"ratio">>, ratio |-> Q(13, 2)],
            [mode |-> <<"grid">>]},
   layout : [finalScale : {Undefined, Q(1, 2), R(2)},
             margin : {Undefined, <<R(0), R(0)>>, <<R(200), R(5)>>},
             targetSize : FitTargets]]

InitFit ==
  /\ defaultOptions = InitialDefaultOptions
  /\ calls = 1
  /\ earlier = <<>>
  /\ \E b \in FitBeatmaps, o \in FitOverrides : Fresh(b, o)

SpecFit == InitFit /\ [][Next]_vars

TargetSizeError == "layout.targetSize dimensions must be within [32, 20000]"

TargetSet == options # Undefined /\ options.layout.targetSize # Undefined

TargetWidth == options.layout.targetSize[1]
TargetHeight == options.layout.targetSize[2]

\* A target dimension is inside [32, 20000].
InTargetRange(v) == Le(R(32), v) /\ Le(v, R(20000))

\* The layout of the resolved window and count before the fit.
PreFit == computeLayout(beatmap, options, start, end, stripNum)

\* C11: with layout.targetSize set, a target width or height below 32 or above
\* 20000 makes the resolver raise an Error (no Context is returned, and a
\* resolution that got as far as the fit raises the target-size Error); a
\* target inside [32, 20000] on both axes never raises the target-size Error;
\* without targetSize the target-size Error is never raised and the returned
\* finalScale and margins are the configured ones.
C11_TargetSizeRange ==
  /\ (TargetSet /\ ~(InTargetRange(TargetWidth) /\ InTargetRange(TargetHeight)))
       => /\ ~Returned
          /\ (pc = "error" /\ stripNum # Undefined) => error = TargetSizeError
  /\ (TargetSet /\ InTargetRange(TargetWidth) /\ InTargetRange(TargetHeight))
       => error # TargetSizeError
  /\ (options # Undefined /\ ~TargetSet)
       => /\ error # TargetSizeError
          /\ Returned => /\ ctx.finalScale = options.layout.finalScale
                         /\ ctx.margin = options.layout.margin

C11_Witness ==
  /\ pc = "error"
  /\ error = TargetSizeError
  /\ TargetWidth = R(400)
  /\ TargetHeight = R(20001)

\* The fit ran on a layout of positive dimensions with a positive scale.
PositiveFit ==
  /\ Returned
  /\ TargetSet
  /\ Gt(options.layout.finalScale, R(0))
  /\ Ge(options.layout.margin[1], R(0))
  /\ Ge(options.layout.margin[2], R(0))
  /\ Gt(PreFit.contentWidth, R(0))
  /\ Gt(PreFit.contentHeight, R(0))

\* C12: with targetSize set and positive dimensions, the canvas of the
\* resolved context never exceeds the target: totalWidth * finalScale <=
\* targetWidth and totalHeight * finalScale <= targetHeight.
C12_CanvasWithinTarget ==
  PositiveFit =>
    /\ Le(Mul(ctx.totalWidth, ctx.finalScale), TargetWidth)
    /\ Le(Mul(ctx.totalHeight, ctx.finalScale), TargetHeight)

\* The content alone is larger than the target, so the fit shrinks the scale.
C12_Witness ==
  /\ PositiveFit
  /\ Gt(PreFit.contentWidth, TargetWidth)
  /\ Lt(ctx.finalScale, options.layout.finalScale)

\* C13: with targetSize set and positive configured finalScale, margins and
\* content dimensions, the margins are adjusted so that the final canvas meets
\* the target exactly on both axes: totalWidth * finalScale = targetWidth and
\* totalHeight * finalScale = targetHeight.
C13_CanvasMeetsTarget ==
  PositiveFit =>
    /\ Mul(ctx.totalWidth, ctx.finalScale) = TargetWidth
    /\ Mul(ctx.totalHeight, ctx.finalScale) = TargetHeight

\* The fit grew a margin beyond the configured one.
C13_Witness ==
  /\ PositiveFit
  /\ Gt(ctx.margin[2], options.layout.margin[2])
  /\ ctx.margin[1] # ctx.margin[2]

\* C14: with targetSize set, the effective final scale is
\* min(configured finalScale, targetWidth / totalWidth, targetHeight /
\* totalHeight) over the totals before the fit, and so never larger than the
\* configured final scale.
C14_EffectiveScale ==
  PositiveFit =>
    LET scaleX == Div(TargetWidth, PreFit.totalWidth)
        scaleY == Div(TargetHeight, PreFit.totalHeight)
        configured == options.layout.finalScale
    IN  /\ ctx.finalScale \in {configured, scaleX, scaleY}
        /\ Le(ctx.finalScale, configured)
        /\ Le(ctx.finalScale, scaleX)
        /\ Le(ctx.finalScale, scaleY)

\* The height of the target is what limits the scale.
C14_Witness ==
  /\ PositiveFit
  /\ ctx.finalScale = Div(TargetHeight, PreFit.totalHeight)
  /\ Lt(ctx.finalScale, Div(TargetWidth, PreFit.totalWidth))
  /\ Lt(ctx.finalScale, options.layout.finalScale)

-----------------------------------------------------------------------------
(* Direct calls of the exported functions *)

renderVars == <<defaultOptions, beatmap, optionsOverride, pc, options, start,
                end, stripNum, lastRatio, iterations, ctx, svg, error, calls,
                earlier>>

\* No render call is running.
NoRender ==
  /\ defaultOptions = InitialDefaultOptions
  /\ beatmap = Undefined
  /\ optionsOverride = Undefined
  /\ pc = "idle"
  /\ options = Undefined
  /\ start = Undefined
  /\ end = Undefined
  /\ stripNum = Undefined
  /\ lastRatio = Undefined
  /\ iterations = 0
  /\ ctx = Undefined
  /\ svg = Undefined
  /\ error = ""
  /\ calls = 0
  /\ earlier = <<>>

BarTimingPoints ==
  {TimingPoint(0, 120, 4), TimingPoint(1000, 60, 4), TimingPoint(1000, 240, 3),
   TimingPoint(4000, 120, 4), TimingPoint(-500, 120, 4)}

BarWindows ==
  {[start |-> R(0), end |-> R(4000)], [start |-> R(1000), end |-> R(8000)],
   [start |-> R(1000), end |-> R(500)], [start |-> R(0), end |-> Q(9001, 2)]}

InitBarLines ==
  /\ NoRender
  /\ result = Undefined
  /\ \E tps \in SeqsUpTo(BarTimingPoints, MaxTimingPoints), w \in BarWindows :
       args = [timingPoints |-> tps, start |-> w.start, end |-> w.end]

GenerateBarLines ==
  /\ pc = "idle"
  /\ result = Undefined
  /\ "timingPoints" \in DOMAIN args
  /\ result' = [returned |->
                  generateBarLinePositions(args.timingPoints, args.start, args.end)]
  /\ UNCHANGED <<args, renderVars>>

NextBarLines == GenerateBarLines

SpecBarLines == InitBarLines /\ [][NextBarLines]_vars

BarLinesReturned == result # Undefined /\ "timingPoints" \in DOMAIN args

\* The indices of the timing points in ascending order of time, input order
\* among equal times.
SortedOrder(tps) ==
  CHOOSE order \in [1..Len(tps) -> 1..Len(tps)] :
    /\ \A i, j \in 1..Len(tps) : i # j => order[i] # order[j]
    /\ \A i, j \in 1..Len(tps) :
         i < j => \/ Lt(tps[order[i]].time, tps[order[j]].time)
                  \/ /\ tps[order[i]].time = tps[order[j]].time
                     /\ order[i] < order[j]

\* The end of the regime of the i-th point in sorted order.
RegimeEnd(tps, order, i, e) ==
  IF i < Len(tps) THEN tps[order[i + 1]].time ELSE e

BarDuration(tp) == Mul(Div(R(60000), tp.bpm), R(tp.meter))

\* The times tp.time + k * barDuration that are < regimeEnd, <= e and >= s, in
\* ascending order of k.
RegimeDownbeats(tp, regimeEnd, s, e) ==
  LET reach == IF Lt(e, tp.time) THEN 0
               ELSE MathFloor(Div(Sub(e, tp.time), BarDuration(tp)))[1]
      at(k) == Add(tp.time, Mul(R(k), BarDuration(tp)))
      ks == {k \in 0..reach :
               Lt(at(k), regimeEnd) /\ Le(at(k), e) /\ Ge(at(k), s)}
      first == CHOOSE k \in ks : \A other \in ks : k <= other
  IN  [j \in 1..Cardinality(ks) |-> at(first + j - 1)]

RECURSIVE DownbeatsFrom(_, _, _, _, _)
DownbeatsFrom(tps, order, i, s, e) ==
  IF i > Len(tps) THEN <<>>
  ELSE RegimeDownbeats(tps[order[i]], RegimeEnd(tps, order, i, e), s, e)
       \o DownbeatsFrom(tps, order, i + 1, s, e)

BarLinesAsSpecified ==
  /\ result.returned =
       DownbeatsFrom(args.timingPoints, SortedOrder(args.timingPoints), 1,
                     args.start, args.end)
  /\ (/\ args.timingPoints = <<TimingPoint(0, 120, 4)>>
      /\ args.start = R(0)
      /\ args.end = R(4000))
       => result.returned = <<R(0), R(2000)>>

\* C15 as stated: generateBarLinePositions returns the concatenation, over the
\* timing points sorted ascending by time, of the times tp.time + k *
\* barDuration that are < the regime end, <= end and >= start; a single point
\* {0, 120, 4} over [0, 4000] gives [0, 2000]; and every timing point whose
\* time lies in [start, end] and before the next point's time (if there is a
\* next point) has its own time emitted.
C15_BarLinesEveryPointInWindow ==
  BarLinesReturned =>
    /\ BarLinesAsSpecified
    /\ LET tps == args.timingPoints
           order == SortedOrder(tps)
       IN  \A i \in 1..Len(tps) :
             (/\ Le(args.start, tps[order[i]].time)
              /\ Le(tps[order[i]].time, args.end)
              /\ i < Len(tps) => Lt(tps[order[i]].time, tps[order[i + 1]].time))
               => tps[order[i]].time \in Range(result.returned)

\* C15, amended: as above, but a timing point has its own time emitted when
\* its time is >= start, <= end and strictly before the end of its regime: the
\* next point's time, or end for the last point.
C15_BarLines ==
  BarLinesReturned =>
    /\ BarLinesAsSpecified
    /\ LET tps == args.timingPoints
           order == SortedOrder(tps)
       IN  \A i \in 1..Len(tps) :
             (/\ Le(args.start, tps[order[i]].time)
              /\ Le(tps[order[i]].time, args.end)
              /\ Lt(tps[order[i]].time, RegimeEnd(tps, order, i, args.end)))
               => tps[order[i]].time \in Range(result.returned)

\* Two regimes in the window, given out of order; the second starts off the
\* first one's grid and is emitted.
C15_Witness ==
  /\ BarLinesReturned
  /\ args.timingPoints = <<TimingPoint(1000, 240, 3), TimingPoint(0, 120, 4)>>
  /\ args.end = Q(9001, 2)
  /\ result.returned = <<R(0), R(1000), R(1750), R(2500), R(3250), R(4000)>>

-----------------------------------------------------------------------------
(* The default color selector, called directly *)

InitColor ==
  /\ NoRender
  /\ result = Undefined
  /\ \E keys \in 0..MaxKeys, column \in -1..MaxKeys :
       args = [keys |-> keys, note |-> Tap(column, 0)]

SelectColor ==
  /\ pc = "idle"
  /\ result = Undefined
  /\ "note" \in DOMAIN args
  /\ LET color == noteColor(args.keys, args.note)
     IN  result' = IF color \in {UnsupportedKeys, InvalidColumn}
                   THEN [thrown |-> color]
                   ELSE [returned |-> color]
  /\ UNCHANGED <<args, renderVars>>

NextColor == SelectColor

SpecColor == InitColor /\ [][NextColor]_vars

ColorSelected == result # Undefined /\ "note" \in DOMAIN args

\* The column counts the default layout table has an entry for.
SupportedKeys == (1..10) \cup {12, 14, 16, 18}

Palette == {"#FFFFFF", "#5EAEFF", "#FFEC5E", "#FF3F00"}

\* C16: the default selector is symmetric: for every column count k of the
\* default table and every column c with 0 <= c < k, the color of column c is
\* the color of column k-1-c; for k = 4, columns 0 and 3 have the same color.
C16_SymmetricColors ==
  (/\ ColorSelected
   /\ args.keys \in SupportedKeys
   /\ args.note.column \in 0..(args.keys - 1))
    => /\ "returned" \in DOMAIN result
       /\ result.returned =
            noteColor(args.keys, Tap(args.keys - 1 - args.note.column, 0))
       /\ (args.keys = 4 /\ args.note.column = 0)
            => result.returned = noteColor(4, Tap(3, 0))

C16_Witness ==
  /\ ColorSelected
  /\ args.keys = 4
  /\ args.note.column = 0
  /\ result = [returned |-> "#FFFFFF"]
  /\ noteColor(4, Tap(1, 0)) = "#5EAEFF"

\* C17: the selector raises 'Unsupported keys' when the column count has no
\* layout table entry; raises 'Invalid column' when the count k is supported
\* and the column is outside 0..k-1 (column = k and negative columns
\* included); and for a supported k and a column in 0..k-1 returns a color of
\* the palette and raises nothing.
C17_SelectorErrors ==
  ColorSelected =>
    IF args.keys \notin SupportedKeys
    THEN result = [thrown |-> "Unsupported keys"]
    ELSE IF args.note.column \notin 0..(args.keys - 1)
         THEN result = [thrown |-> "Invalid column"]
         ELSE /\ DOMAIN result = {"returned"}
              /\ result.returned \in Palette

C17_Witness ==
  /\ ColorSelected
  /\ args.keys = 4
  /\ args.note.column = 4
  /\ result = [thrown |-> "Invalid column"]

-----------------------------------------------------------------------------
(* render of charts of any column count *)

KeysBeatmaps ==
  [keys : {0, 4, 7, 11},
   notes : {<<>>, <<Tap(1, 1440)>>, <<Hold(2, 2000, 3000), Tap(4, 2500)>>},
   timingPoints : {<<>>, <<TimingPoint(1000, 60, 4)>>}]

KeysOverrides ==
  [strip : {[mode |-> <<"num">>], [mode |-> <<"num">>, num |-> R(51)],
            [mode |-> <<"time">>, time |-> R(1000)],
            [mode |-> <<"ratio">>], [mode |-> <<"grid">>]},
   layout : {[targetSize |-> Undefined], [targetSize |-> <<R(400), R(300)>>],
             [targetSize |-> <<R(400), R(31)>>]}]

InitKeys ==
  /\ defaultOptions = InitialDefaultOptions
  /\ calls = 1
  /\ earlier = <<>>
  /\ \E b \in KeysBeatmaps, o \in KeysOverrides : Fresh(b, o)

SpecKeys == InitKeys /\ [][Next]_vars

\* render has finished: it returned the document or threw.
Finished == pc \in {"done", "error"}

\* C18: render raises the unsupported-keys Error for every chart whose column
\* count has no layout table entry, whatever its note list (the empty one
\* included), and returns no document then.
C18_UnsupportedKeysAlwaysRaised ==
  (Finished /\ beatmap.keys \notin SupportedKeys)
    => /\ pc = "error"
       /\ svg = Undefined
       /\ (start # Undefined /\ ctx # Undefined) => error = "Unsupported keys"

-----------------------------------------------------------------------------
(* Resolving again with the resolved window and count given explicitly *)

ReresolveOverrides ==
  [time : {[start |-> Auto, end |-> Auto], [start |-> R(0), end |-> R(3000)]},
   strip : {[mode |-> <<"num">>], [mode |-> <<"time">>, time |-> R(1000)],
            [mode |-> <<"ratio">>, ratio |-> Q(13, 2)], [mode |-> <<"grid">>]},
   layout : {[targetSize |-> Undefined], [targetSize |-> <<R(400), R(300)>>],
             [targetSize |-> <<R(400), R(31)>>]}]

InitReresolve ==
  /\ defaultOptions = InitialDefaultOptions
  /\ calls = 1
  /\ earlier = <<>>
  /\ \E b \in FitBeatmaps, o \in ReresolveOverrides : Fresh(b, o)

\* The caller renders the same chart again, with the start, end and strip
\* count of the Context just resolved as explicit options in mode 'num'.
Reresolve ==
  /\ pc = "done"
  /\ calls < MaxCalls
  /\ calls' = calls + 1
  /\ earlier' = <<[call |-> calls, ctx |-> ctx]>>
  /\ optionsOverride' =
       [time |-> [start |-> ctx.time.start, end |-> ctx.time.end],
        strip |-> [mode |-> <<"num">>, num |-> ctx.strip.num],
        layout |-> optionsOverride.layout]
  /\ pc' = "render"
  /\ options' = Undefined
  /\ start' = Undefined
  /\ end' = Undefined
  /\ stripNum' = Undefined
  /\ lastRatio' = Undefined
  /\ iterations' = 0
  /\ ctx' = Undefined
  /\ svg' = Undefined
  /\ error' = ""
  /\ UNCHANGED <<defaultOptions, beatmap, args, result>>

NextReresolve == Next \/ Reresolve

SpecReresolve == InitReresolve /\ [][NextReresolve]_vars

\* C19: resolving again with the resolved start, end and strip count as
\* explicit options (mode 'num', other options the same) returns a Context
\* with the same start, end, strip count, strip height and total dimensions,
\* however often it is repeated.
C19_ResolverIdempotent ==
  earlier # <<>> =>
    /\ pc # "error"
    /\ Returned =>
         /\ ctx.time.start = earlier[1].ctx.time.start
         /\ ctx.time.end = earlier[1].ctx.time.end
         /\ ctx.strip.num = earlier[1].ctx.strip.num
         /\ ctx.strip.height = earlier[1].ctx.strip.height
         /\ ctx.totalWidth = earlier[1].ctx.totalWidth
         /\ ctx.totalHeight = earlier[1].ctx.totalHeight

-----------------------------------------------------------------------------
(* render of taps and holds from window start 0 *)

NotesBeatmaps ==
  [keys : {4},
   notes : SeqsUpTo({Tap(0, 1000), Hold(1, 2000, 3000), Hold(3, 2000, 2040)},
                    MaxNotes),
   timingPoints : {<<TimingPoint(0, 120, 4)>>, <<TimingPoint(1000, 60, 4)>>}]

NotesOverrides ==
  [strip : {[mode |-> <<"num">>], [mode |-> <<"num">>, num |-> R(51)],
            [mode |-> <<"time">>, time |-> R(1000)],
            [mode |-> <<"ratio">>], [mode |-> <<"grid">>]},
   note : {[height |-> Undefined], [height |-> R(10), width |-> R(32)]},
   layout : {[targetSize |-> Undefined], [targetSize |-> <<R(400), R(31)>>]}]

InitNotes ==
  /\ defaultOptions = InitialDefaultOptions
  /\ calls = 1
  /\ earlier = <<>>
  /\ \E b \in NotesBeatmaps, o \in NotesOverrides : Fresh(b, o)

SpecNotes == InitNotes /\ [][Next]_vars

\* The document has a rectangle of this position and height among its notes.
HasNoteRect(x, y, height) ==
  \E r \in Range(svg.notes) : r.x = x /\ r.y = y /\ r.height = height

\* C20: every note's rectangle has x = column * noteWidth and y = (note.start
\* - windowStart) * timeScale; a tap has height noteHeight and a hold height
\* (end - start) * timeScale.  With default options and window start 0, a tap
\* at 1000 ms is at y = 100 and a hold from 2000 to 3000 ms at y = 200 with
\* height 100.
C20_NoteGeometry ==
  pc = "done" =>
    /\ \A n \in Range(beatmap.notes) :
         HasNoteRect(Mul(R(n.column), ctx.note.width),
                     Mul(Sub(n.start, ctx.time.start), ctx.time.scale),
                     IF n.end = Undefined THEN ctx.note.height
                     ELSE Mul(Sub(n.end, n.start), ctx.time.scale))
    /\ (/\ ctx.time.start = R(0)
        /\ ctx.time.scale = Q(1, 10)
        /\ ctx.note.height = R(6))
         => /\ Tap(0, 1000) \in Range(beatmap.notes)
                 => HasNoteRect(R(0), R(100), R(6))
            /\ Hold(1, 2000, 3000) \in Range(beatmap.notes)
                 => HasNoteRect(ctx.note.width, R(200), R(100))

-----------------------------------------------------------------------------
(* deepMerge of the defaults and an override, called as render calls it *)

MergeOverrides ==
  [note : {Undefined, [width |-> R(32)], [height |-> R(10), rx |-> Undefined]},
   axis : {Undefined, [width |-> R(0)], [minute |-> [color |-> <<"#00FF00">>]],
           [second |-> [fontSize |-> R(12), color |-> Undefined]]},
   layout : {Undefined, [margin |-> <<R(0), R(0)>>],
             [targetSize |-> <<R(400), R(300)>>, finalScale |-> Undefined]},
   strip : {Undefined, [mode |-> <<"ratio">>], [num |-> R(3), time |-> R(1000)]}]
  \cup {[time |-> [start |-> R(5000)]], [background |-> [enabled |-> <<FALSE>>]]}

InitMerge ==
  /\ NoRender
  /\ result = Undefined
  /\ \E o \in MergeOverrides : args = [target |-> defaultOptions, source |-> o]

Merge ==
  /\ pc = "idle"
  /\ result = Undefined
  /\ "source" \in DOMAIN args
  /\ result' = [returned |-> deepMerge(args.target, args.source)]
  /\ UNCHANGED <<args, renderVars>>

NextMerge == Merge

SpecMerge == InitMerge /\ [][NextMerge]_vars

Merged == result # Undefined /\ "source" \in DOMAIN args

\* A value no option has.
Missing == <<"no", "such", "key">>

\* The value an object has at a path of keys, Missing when it has none.
RECURSIVE ValueAt(_, _)
ValueAt(object, path) ==
  IF path = <<>> THEN object
  ELSE IF Head(path) \in DOMAIN object
       THEN ValueAt(object[Head(path)], Tail(path))
       ELSE Missing

\* The paths of the arrays and primitives of the defaults.
DefaultLeafPaths ==
  LET d == InitialDefaultOptions
  IN  UNION {{<<k, j>> : j \in DOMAIN d[k] \ {"minute", "second"}} :
               k \in DOMAIN d}
      \cup {<<"axis", t, j>> : t \in {"minute", "second"},
                               j \in {"color", "strokeWidth", "fontSize"}}

\* C21: option merging is a deep merge: a key given inside a plain sub-object
\* replaces only that key and leaves its siblings at their defaults; an array
\* or primitive override replaces the default wholesale; a key absent from the
\* override, or given as undefined, keeps its default.
C21_DeepMerge ==
  Merged =>
    \A path \in DefaultLeafPaths :
      LET given == ValueAt(args.source, path)
      IN  ValueAt(result.returned, path) =
            IF given \in {Missing, Undefined}
            THEN ValueAt(InitialDefaultOptions, path)
            ELSE given

\* One key of a nested sub-object and one array are overridden.
C21_Witness ==
  /\ Merged
  /\ ValueAt(args.source, <<"axis", "second", "fontSize">>) = R(12)
  /\ ValueAt(args.source, <<"layout", "margin">>) = <<R(0), R(0)>>
  /\ result.returned.axis.second.fontSize = R(12)
  /\ result.returned.axis.second.strokeWidth = R(1)
  /\ result.returned.axis.width = R(30)
  /\ result.returned.layout.margin = <<R(0), R(0)>>
  /\ result.returned.layout.finalScale = R(1)

-----------------------------------------------------------------------------
(* The strips of the document *)

\* The number of indices i = 0, 1, ... with i <= n - 1.
IndicesBelow(n) ==
  IF IsNaN(n) \/ Le(n, R(0)) THEN 0 ELSE MathFloor(Sub(n, R(1)))[1] + 1

\* The time a template y coordinate stands for.
TimeOfY(y) == Add(ctx.time.start, Div(y, ctx.time.scale))

StripDuration == Div(Sub(ctx.time.end, ctx.time.start), ctx.strip.num)

\* C22: for every i in 0..stripCount-1, strip i is translated horizontally by
\* i * stripWidth and vertically by -i * stripHeight and clipped to the
\* template rectangle y in [i * stripHeight, (i+1) * stripHeight), the slice of
\* the time interval [windowStart + i * stripDuration, windowStart + (i+1) *
\* stripDuration); consecutive strips' intervals abut.
C22_StripTiling ==
  pc = "done" =>
    /\ Len(svg.strips) = IndicesBelow(ctx.strip.num)
    /\ Len(svg.clipPaths) = IndicesBelow(ctx.strip.num)
    /\ \A k \in DOMAIN svg.strips :
         LET i == k - 1
             strip == svg.strips[k]
             clip == svg.clipPaths[k]
         IN  /\ strip.offsetX = Mul(R(i), ctx.strip.width)
             /\ strip.offsetY = Neg(Mul(R(i), ctx.strip.height))
             /\ strip.clipPath = i
             /\ clip.id = i
             /\ clip.y = Mul(R(i), ctx.strip.height)
             /\ clip.height = ctx.strip.height
             /\ clip.width = ctx.strip.width
             /\ TimeOfY(clip.y) = Add(ctx.time.start, Mul(R(i), StripDuration))
             /\ TimeOfY(Add(clip.y, clip.height)) =
                  Add(ctx.time.start, Mul(R(i + 1), StripDuration))
             /\ k < Len(svg.strips) =>
                  svg.clipPaths[k + 1].y = Add(clip.y, clip.height)

C22_Witness ==
  /\ pc = "done"
  /\ Len(svg.strips) = 8
  /\ svg.strips[3].offsetX = R(220)
  /\ Lt(svg.strips[3].offsetY, R(0))
  /\ Gt(svg.clipPaths[3].y, R(0))

-----------------------------------------------------------------------------
(* The aspect ratio as a function of the strip count *)

\* The window is resolved, and the lengths the layout is computed from are
\* positive (note width, time scale, window length) or not negative (margins,
\* axis width).
PositiveLayoutInputs ==
  /\ pc = "strip"
  /\ Gt(options.note.width, R(0))
  /\ Gt(options.time.scale, R(0))
  /\ Gt(end, start)
  /\ Ge(options.axis.width, R(0))
  /\ Ge(options.layout.margin[1], R(0))
  /\ Ge(options.layout.margin[2], R(0))

\* C23: the aspect ratio totalWidth(n) / totalHeight(n) of computeLayout is
\* monotonically non-decreasing in the strip count n over 1..50, for positive
\* note width, time scale and window length and non-negative margins and axis
\* width.
C23_RatioMonotone ==
  PositiveLayoutInputs =>
    \A n \in 1..49 : Le(AspectRatio(n), AspectRatio(n + 1))

C23_Witness ==
  /\ PositiveLayoutInputs
  /\ options.layout.margin = <<R(200), R(5)>>
  /\ Lt(AspectRatio(1), AspectRatio(2))
  /\ Lt(AspectRatio(49), AspectRatio(50))

-----------------------------------------------------------------------------
(* The axis ticks of the document *)

\* The whole seconds t (multiples of 1000 ms) with start <= t <= end.
WholeSecondsInWindow ==
  {k * 1000 : k \in MathCeil(Div(ctx.time.start, R(1000)))[1] ..
                    MathFloor(Div(ctx.time.end, R(1000)))[1]}

TickTimes == {svg.axisLabels[k].time : k \in DOMAIN svg.axisLabels}

\* C24: render emits one tick with a label for every whole second t with
\* windowStart <= t <= windowEnd and for no other time; a tick at a whole
\* minute has the minute style and the minute number as label, every other
\* tick the second style and the seconds within the minute as label.
C24_AxisTicks ==
  pc = "done" =>
    /\ TickTimes = WholeSecondsInWindow
    /\ Len(svg.axisLabels) = Cardinality(WholeSecondsInWindow)
    /\ \A k \in DOMAIN svg.axisLabels :
         LET tick == svg.axisLabels[k]
             style == IF tick.time % 60000 = 0
                      THEN ctx.axis.minute ELSE ctx.axis.second
         IN  /\ tick.label = IF tick.time % 60000 = 0
                             THEN tick.time \div 60000
                             ELSE (tick.time % 60000) \div 1000
             /\ tick.stroke = style.color[1]
             /\ tick.strokeWidth = style.strokeWidth
             /\ tick.fontSize = style.fontSize

-----------------------------------------------------------------------------
(* Timing points of the same time *)

\* The timing points without those that a later one of the input shares its
\* time with.
RECURSIVE LastOfTies(_)
LastOfTies(tps) ==
  IF tps = <<>> THEN <<>>
  ELSE IF \E j \in 2..Len(tps) : tps[j].time = Head(tps).time
       THEN LastOfTies(Tail(tps))
       ELSE <<Head(tps)>> \o LastOfTies(Tail(tps))

SharedTimes(tps) ==
  {tps[i].time : i \in {i \in DOMAIN tps :
                          \E j \in DOMAIN tps : j # i /\ tps[j].time = tps[i].time}}

\* C25: of several timing points of the same time all but the last (in input
\* order) are zero-length regimes that emit no bar line: the bar lines are
\* those of the input without them, so from the shared time on they are
\* stepped with the bpm and meter of the last of the tied points; and the
\* shared time is emitted at most once.
C25_TiedTimingPoints ==
  BarLinesReturned =>
    /\ result.returned =
         DownbeatsFrom(LastOfTies(args.timingPoints),
                       SortedOrder(LastOfTies(args.timingPoints)), 1,
                       args.start, args.end)
    /\ \A t \in SharedTimes(args.timingPoints) :
         Cardinality({k \in DOMAIN result.returned : result.returned[k] = t}) <= 1

\* Two points at 1000 ms, bars of 4000 ms and then of 750 ms: the bars follow
\* the second.
C25_Witness ==
  /\ BarLinesReturned
  /\ args.timingPoints = <<TimingPoint(1000, 60, 4), TimingPoint(1000, 240, 3)>>
  /\ args.start = R(1000)
  /\ args.end = R(8000)
  /\ Len(result.returned) = 10
  /\ result.returned[1] = R(1000)
  /\ result.returned[2] = R(1750)

\* C26: for timing points with bpm > 0 and meter >= 1 in any input order, the
\* sequence generateBarLinePositions returns is strictly increasing, so without
\* duplicates, and every element t of it has start <= t <= end.
C26_BarLinesIncreasing ==
  BarLinesReturned =>
    /\ \A k \in 1..(Len(result.returned) - 1) :
         Lt(result.returned[k], result.returned[k + 1])
    /\ \A k \in DOMAIN result.returned :
         Le(args.start, result.returned[k]) /\ Le(result.returned[k], args.end)

\* Points given out of order, the later one on the grid of the earlier one.
C26_Witness ==
  /\ BarLinesReturned
  /\ args.timingPoints = <<TimingPoint(4000, 120, 4), TimingPoint(0, 120, 4)>>
  /\ args.start = R(1000)
  /\ args.end = R(8000)
  /\ result.returned = <<R(2000), R(4000), R(6000)>>

-----------------------------------------------------------------------------
(* render of well-formed charts, run to its end *)

WellFormedBeatmaps ==
  [keys : {4, 7},
   notes : SeqsUpTo({Tap(1, 1440), Hold(3, 2000, 35000)}, MaxNotes),
   timingPoints : {<<TimingPoint(-500, 120, 4)>>,
                   <<TimingPoint(1000, 60, 4), TimingPoint(-500, 120, 4)>>,
                   <<TimingPoint(1000, 60, 4), TimingPoint(1000, 240, 3)>>,
                   <<TimingPoint(4000, 120, 4), TimingPoint(0, 120, 4)>>}]

WellFormedOverrides ==
  {[strip |-> Undefined, layout |-> Undefined],
   [strip |-> [mode |-> <<"time">>], layout |-> Undefined],
   [strip |-> [mode |-> <<"time">>], layout |-> [finalScale |-> R(2)]]}

InitWellFormed ==
  /\ defaultOptions = InitialDefaultOptions
  /\ calls = 1
  /\ earlier = <<>>
  /\ \E b \in WellFormedBeatmaps, o \in WellFormedOverrides : Fresh(b, o)

\* render is synchronous: a call that has started runs on to its return or
\* its throw.  Every step of Next is a step of Proceed, and in every Running
\* state one of the actions of Next is enabled.
Running == pc \in {"render", "strip", "layout", "emit"}

Proceed ==
  /\ Running
  /\ pc' \in {"strip", "layout", "emit", "done", "error"}
  /\ pc' # pc

SpecWellFormed == InitWellFormed /\ [][Next]_vars /\ WF_pc(Proceed)

\* C27: for a chart of a supported column count, with every note column in
\* range and a non-empty timing point list of bpm > 0 and meter >= 1, render
\* with default options (and with strip.mode 'time' and a final scale) comes to
\* its end and returns a document without raising an Error.
C27_RenderTerminates ==
  /\ <>(pc = "done" /\ svg # Undefined)
  /\ [](pc # "error")

\* A chart of two regimes rendered in mode 'time' to a document with bar lines.
C27_Witness ==
  /\ pc = "done"
  /\ options.strip.mode = <<"time">>
  /\ options.layout.finalScale = R(2)
  /\ Len(beatmap.timingPoints) = 2
  /\ Len(svg.barLines) > 10
  /\ ctx.strip.num = R(2)

-----------------------------------------------------------------------------
(* What a call leaves alone *)

\* C28: no step of render writes to the module's defaultOptions (the default
\* margin array included), and within one call no step writes to the caller's
\* override object or to the chart (its notes and timingPoints, contents and
\* order); a fit writes only to the fresh copy of the margin pair.
C28_InputsUnchanged ==
  [][/\ defaultOptions' = defaultOptions
     /\ calls' = calls => /\ optionsOverride' = optionsOverride
                          /\ beatmap' = beatmap]_vars

\* A third call that fitted the document to a target size: the Context holds
\* the raised margin, the defaults still hold the default margin.
C28_Witness ==
  /\ calls = 3
  /\ pc = "done"
  /\ options.layout.targetSize = <<R(400), R(300)>>
  /\ ctx.margin # options.layout.margin
  /\ options.layout.margin = InitialDefaultOptions.layout.margin
  /\ defaultOptions = InitialDefaultOptions
  /\ beatmap.timingPoints = <<TimingPoint(1000, 60, 4), TimingPoint(-500, 120, 4)>>
  /\ Len(svg.barLines) > 0

-----------------------------------------------------------------------------
(* Mode 'time': the window after the re-expansion *)

\* C29: in strip mode 'time' the resolved end is at least the padded end (the
\* last note time or the explicit end, plus the padding), so with an automatic
\* end every note's time (note.end if present, else note.start) is at most the
\* resolved end, also when the strip count is clamped to the cap.
C29_TimeModeKeepsWindow ==
  (Returned /\ StripMode = "time") =>
     /\ Ge(ctx.time.end, resolveEnd(beatmap, options, ctx.time.start))
     /\ options.time.end = Auto =>
           \A i \in DOMAIN beatmap.notes :
              Le(NoteLast(beatmap.notes[i]), ctx.time.end)

-----------------------------------------------------------------------------
(* As many strips as the strip count *)

\* The template y interval of clip path k, as a time interval.
ClipInterval(k) ==
  LET clip == svg.clipPaths[k]
  IN  <<TimeOfY(clip.y), TimeOfY(Add(clip.y, clip.height))>>

\* C30: for every accepted strip.num, strip.time or strip.ratio (a non-integer
\* strip.num included) the document has exactly as many clip paths and strips
\* as the resolved strip count n, with ids strip-0 .. strip-(n-1) each used
\* once; n * stripHeight = (end - start) * time.scale, and the strips' time
\* intervals together cover the resolved window [start, end].
C30_StripsCoverWindow ==
  pc = "done" =>
    /\ R(Len(svg.clipPaths)) = ctx.strip.num
    /\ R(Len(svg.strips)) = ctx.strip.num
    /\ \A k \in DOMAIN svg.clipPaths :
         svg.clipPaths[k].id = k - 1 /\ svg.strips[k].clipPath = k - 1
    /\ Mul(ctx.strip.num, ctx.strip.height)
         = Mul(Sub(ctx.time.end, ctx.time.start), ctx.time.scale)
    /\ Len(svg.clipPaths) > 0
    /\ ClipInterval(1)[1] = ctx.time.start
    /\ ClipInterval(Len(svg.clipPaths))[2] = ctx.time.end
    /\ \A k \in 1..(Len(svg.clipPaths) - 1) :
         ClipInterval(k)[2] = ClipInterval(k + 1)[1]

=============================================================================
